---------------------------- MODULE Spec2Model ----------------------------
(***************************************************************************)
(* A model of the bft brainfuck interpreter:                               *)
(*   bft_types::Program::try_new   (the loader, program.rs)                *)
(*   bft_interp::Machine           (the virtual machine, machine.rs)       *)
(* Source text is a sequence of one-character strings.  Instruction        *)
(* indices, ip, dp, dest, line and column are zero-based as in the code;   *)
(* TLA+ sequences are one-based, so element i of a Vec is seq[i + 1].      *)
(***************************************************************************)
EXTENDS Integers, Sequences, FiniteSets, TLC

\* ------------------------------------------------------------------ bounds
\* longest enumerated source text of the loader specification
MaxTextLen == 3
\* longest enumerated program of the machine specification
MaxProgLen == 3
\* largest initial tape size handed to Machine::new
MaxTapeSize == 2
\* longest input channel
MaxInput == 1
\* a growable tape is not grown beyond this length
MaxTapeLen == 4
\* most cells one growth step adds beyond the one that is required
MaxSpare == 1
\* most direct method calls that succeed in the unit-test driver
MaxCalls == 3
\* an Output step is taken only while the sink holds fewer bytes than this
MaxOut == 3
\* most calls of write made through one NewlineWrap
MaxWrites == 2
\* longest buffer handed to one call of write
MaxBufLen == 2
\* longest value given to the --cells option
MaxArgLen == 3

\* ------------------------------------------------------- source characters
\* program.rs:21  const BF_ALPHABET: &str = "><+-.,[]";
BF_ALPHABET == <<">", "<", "+", "-", ".", ",", "[", "]">>

\* characters of the model's texts that are not ASCII
NonAscii == {"U+00E9"}

\* char::is_ascii
is_ascii(c) == c \notin NonAscii

\* str::contains(char) on BF_ALPHABET
contains(alphabet, c) == \E k \in 1..Len(alphabet) : alphabet[k] = c

\* program.rs:44  the filter deciding whether a character is a token
IsToken(c) == is_ascii(c) /\ contains(BF_ALPHABET, c)

\* the opcode characters as a set
OpChars == {BF_ALPHABET[k] : k \in 1..Len(BF_ALPHABET)}

\* characters the enumerated texts are drawn from: the opcodes, an ASCII
\* comment character, a line break and a non-ASCII character
TextChars == OpChars \cup {"x", "\n"} \cup NonAscii

\* all sequences over S of length at most n
SeqsUpTo(S, n) == UNION {[1..k -> S] : k \in 0..n}

\* ------------------------------------------------------------- the loader
\* program.rs:155  struct SourceLocation { line, column }
SourceLocation(line, column) == [line |-> line, column |-> column]

\* a Display that shows the location as it is stored, zero-based
fmt_zero_based(self) ==
    "line " \o ToString(self.line) \o " column " \o ToString(self.column)

\* program.rs:162-166  Display for SourceLocation
fmt(self) ==
    "line " \o ToString(self.line + 1) \o " column " \o ToString(self.column + 1)

\* program.rs:180  struct BfParseError { filename, location, kind }
BfParseError(filename, location, kind) ==
    [filename |-> filename, location |-> location, kind |-> kind]

\* instruction.rs:3  enum Instruction: the six variants without a field
Instruction(op) == [op |-> op]

\* instruction.rs:23  Instruction::Jz { dest }
Jz(dest) == [op |-> "Jz", dest |-> dest]

\* instruction.rs:29  Instruction::Jnz { dest }
Jnz(dest) == [op |-> "Jnz", dest |-> dest]

\* str::lines as used at program.rs:42: the text split at line feeds, the
\* line feeds dropped, and no empty last line after a final line feed
RECURSIVE lines(_)
lines(text) ==
    IF text = <<>> THEN <<>>
    ELSE LET brk == {k \in 1..Len(text) : text[k] = "\n"}
         IN IF brk = {} THEN <<text>>
            ELSE LET k == CHOOSE b \in brk : \A c \in brk : b <= c
                 IN <<SubSeq(text, 1, k - 1)>> \o lines(SubSeq(text, k + 1, Len(text)))

\* program.rs:43-51  the inner loop: the tokens of one line with their sources
ScanLine(line, line_no) ==
    LET cols == SelectSeq([k \in 1..Len(line) |-> k - 1],
                          LAMBDA column : IsToken(line[column + 1]))
    IN [n \in 1..Len(cols) |->
          [c |-> line[cols[n] + 1], source |-> SourceLocation(line_no, cols[n])]]

\* a scan that reads the first line only
ScanFirstLine(ls, line_no) ==
    IF ls = <<>> THEN <<>> ELSE ScanLine(ls[1], 0)

\* program.rs:42-52  the outer loop over the enumerated lines
RECURSIVE ScanLines(_, _)
ScanLines(ls, line_no) ==
    IF line_no >= Len(ls) THEN <<>>
    ELSE ScanLine(ls[line_no + 1], line_no) \o ScanLines(ls, line_no + 1)

\* program.rs:40  the Vec tokens after the filter
tokens(file_contents) ==
    LET sc == ScanLines(lines(file_contents), 0) IN [n \in 1..Len(sc) |-> sc[n].c]

\* program.rs:41  the Vec token_sources after the filter
token_sources(file_contents) ==
    LET sc == ScanLines(lines(file_contents), 0) IN [n \in 1..Len(sc) |-> sc[n].source]

\* BTreeMap::new
EmptyMap == [k \in {} |-> 0]

\* BTreeMap::insert
insert(map, k, v) == [x \in (DOMAIN map) \cup {k} |-> IF x = k THEN v ELSE map[x]]

\* Vec::pop: the element removed, the last one pushed
pop(stack) == stack[Len(stack)]

\* Vec::pop: the Vec that remains
popped(stack) == SubSeq(stack, 1, Len(stack) - 1)

\* program.rs:62  jump_src, the open bracket a close bracket is matched with
jump_src(jump_stack) == pop(jump_stack)

\* the open bracket at the bottom of the stack reported instead
unclosed_brack_bottom(jump_stack) == jump_stack[1]

\* program.rs:75  unclosed_brack, the open bracket reported after the scan
unclosed_brack(jump_stack) == pop(jump_stack)

\* a bracket-matching loop that does not stop at the first close bracket met
\* with an empty jump_stack and reports the last such bracket
RECURSIVE MatchBracketsKeepGoing(_, _, _, _)
MatchBracketsKeepGoing(toks, i, jumps, jump_stack) ==
    IF i >= Len(toks) THEN [unopened |-> FALSE, jumps |-> jumps, jump_stack |-> jump_stack]
    ELSE IF toks[i + 1] = "[" THEN
        MatchBracketsKeepGoing(toks, i + 1, jumps, Append(jump_stack, i))
    ELSE IF toks[i + 1] = "]" THEN
        IF jump_stack = <<>>
        THEN LET rest == MatchBracketsKeepGoing(toks, i + 1, jumps, jump_stack)
             IN IF rest.unopened THEN rest ELSE [unopened |-> TRUE, i |-> i]
        ELSE MatchBracketsKeepGoing(toks, i + 1,
                                    insert(insert(jumps, jump_src(jump_stack), i),
                                           i, jump_src(jump_stack)),
                                    popped(jump_stack))
    ELSE MatchBracketsKeepGoing(toks, i + 1, jumps, jump_stack)

\* program.rs:58-72  the bracket-matching loop from token index i onward;
\* stops at the first close bracket met with an empty jump_stack
RECURSIVE MatchBrackets(_, _, _, _)
MatchBrackets(toks, i, jumps, jump_stack) ==
    IF i >= Len(toks) THEN [unopened |-> FALSE, jumps |-> jumps, jump_stack |-> jump_stack]
    ELSE IF toks[i + 1] = "[" THEN
        MatchBrackets(toks, i + 1, jumps, Append(jump_stack, i))
    ELSE IF toks[i + 1] = "]" THEN
        IF jump_stack = <<>> THEN [unopened |-> TRUE, i |-> i]
        ELSE MatchBrackets(toks, i + 1,
                           insert(insert(jumps, jump_src(jump_stack), i),
                                  i, jump_src(jump_stack)),
                           popped(jump_stack))
    ELSE MatchBrackets(toks, i + 1, jumps, jump_stack)

\* instructions whose `]` carries the index of its `[` itself
MakeInstructionPairLoc(b, i, jumps) ==
    CASE b = ">" -> Instruction("Inc")
      [] b = "<" -> Instruction("Dec")
      [] b = "+" -> Instruction("Succ")
      [] b = "-" -> Instruction("Pred")
      [] b = "." -> Instruction("Out")
      [] b = "," -> Instruction("In")
      [] b = "[" -> Jz(jumps[i] + 1)
      [] b = "]" -> Jnz(jumps[i])

\* program.rs:87-103  one token made into its instruction
MakeInstruction(b, i, jumps) ==
    CASE b = ">" -> Instruction("Inc")
      [] b = "<" -> Instruction("Dec")
      [] b = "+" -> Instruction("Succ")
      [] b = "-" -> Instruction("Pred")
      [] b = "." -> Instruction("Out")
      [] b = "," -> Instruction("In")
      [] b = "[" -> Jz(jumps[i] + 1)
      [] b = "]" -> Jnz(jumps[i] + 1)

\* program.rs:38-110  Program::try_new
try_new(filename, file_contents) ==
    LET toks == tokens(file_contents)
        srcs == token_sources(file_contents)
        m    == MatchBrackets(toks, 0, EmptyMap, <<>>)
    IN IF m.unopened THEN
          [ok |-> FALSE,
           err |-> BfParseError(filename, srcs[m.i + 1], "UnopenedBracket")]
       ELSE IF m.jump_stack # <<>> THEN
          [ok |-> FALSE,
           err |-> BfParseError(filename, srcs[unclosed_brack(m.jump_stack) + 1],
                                "UnclosedBracket")]
       ELSE
          [ok |-> TRUE,
           program |-> [filename |-> filename,
                        instructions |->
                            [n \in 1..Len(toks) |-> MakeInstruction(toks[n], n - 1, m.jumps)]]]

\* ------------------------------------------------------------ the machine
\* machine.rs:99  the cell types of the model (u8 is the front end's, main.rs:41)
Cells == {"u8", "u16"}

\* the width in bits of a cell type
Bits(cell) == IF cell = "u8" THEN 8 ELSE 16

\* 2^n
RECURSIVE Pow2(_)
Pow2(n) == IF n = 0 THEN 1 ELSE 2 * Pow2(n - 1)

\* an increment that stops at the largest value (saturating_add)
saturating_inc(v, cell) == IF v + 1 >= Pow2(Bits(cell)) THEN v ELSE v + 1

\* machine.rs:67-69  CellKind::wrapping_inc
wrapping_inc(v, cell) == (v + 1) % Pow2(Bits(cell))

\* machine.rs:71-73  CellKind::wrapping_dec
wrapping_dec(v, cell) == (v + Pow2(Bits(cell)) - 1) % Pow2(Bits(cell))

\* machine.rs:75-77  CellKind::is_zero
is_zero(v) == v = 0

\* machine.rs:79-81  CellKind::set_value: the byte widened to the cell type
set_value(value) == value

\* to_le_bytes, least significant first
as_le_bytes(v, cell) ==
    LET w == Bits(cell) \div 8
    IN [k \in 1..w |-> (v \div Pow2(8 * (k - 1))) % 256]

\* machine.rs:83-85  CellKind::as_bytes: to_be_bytes, most significant first
as_bytes(v, cell) ==
    LET w == Bits(cell) \div 8
    IN [k \in 1..w |-> (v \div Pow2(8 * (w - k))) % 256]

\* Cell::default
DefaultCell == 0

\* machine.rs:113-121  Machine::new
new(tape_size, tape_kind, program, cell) ==
    [program      |-> program,
     tape         |-> [k \in 1..tape_size |-> DefaultCell],
     tape_can_grow |-> (tape_kind = "Growable"),
     dp           |-> 0,
     ip           |-> 0,
     cell         |-> cell]

\* CommandResult: Ok(next ip)
Ok(next_ip) == [ok |-> TRUE, ip |-> next_ip]

\* machine.rs:249  InterpretError::TapeRunOffError { ip_at_error }
TapeRunOffError(ip_at_error) ==
    [ok |-> FALSE, kind |-> "TapeRunOffError", ip_at_error |-> ip_at_error]

\* machine.rs:255  InterpretError::IoError { ip_at_error, inner }
IoError(ip_at_error, inner) ==
    [ok |-> FALSE, kind |-> "IoError", ip_at_error |-> ip_at_error, inner |-> inner]

\* a move_head_left that stays at cell 0 and reports success (saturating_sub)
move_head_left_saturating(self) ==
    IF self.dp >= 1
    THEN [self |-> [self EXCEPT !.dp = self.dp - 1], res |-> Ok(self.ip + 1)]
    ELSE [self |-> self, res |-> Ok(self.ip + 1)]

\* machine.rs:160-170  Machine::move_head_left
move_head_left(self) ==
    IF self.dp >= 1
    THEN [self |-> [self EXCEPT !.dp = self.dp - 1], res |-> Ok(self.ip + 1)]
    ELSE [self |-> self, res |-> TapeRunOffError(self.ip)]

\* a growth that resizes to the length the tape already has
grow_nothing(tape, capacity) == tape

\* a growth that allocates a fresh tape of default cells
grow_fresh(tape, capacity) == [k \in 1..capacity |-> DefaultCell]

\* machine.rs:179-180  Vec::reserve(1) then resize(capacity, default): the
\* tape extended with default cells up to the capacity the allocator chose
grow(tape, capacity) ==
    tape \o [k \in 1..(capacity - Len(tape)) |-> DefaultCell]

\* a move_head_right that does not roll dp back when a fixed tape ends
move_head_right_no_rollback(self, capacity) ==
    LET dp == self.dp + 1
    IN IF dp >= Len(self.tape)
       THEN IF self.tape_can_grow
            THEN [self |-> [self EXCEPT !.dp = dp, !.tape = grow(self.tape, capacity)],
                  res |-> Ok(self.ip + 1)]
            ELSE [self |-> [self EXCEPT !.dp = dp],
                  res |-> TapeRunOffError(self.ip)]
       ELSE [self |-> [self EXCEPT !.dp = dp], res |-> Ok(self.ip + 1)]

\* machine.rs:175-192  Machine::move_head_right; capacity is what
\* tape.capacity() returns after reserve(1), read only when the tape grows
move_head_right(self, capacity) ==
    LET dp == self.dp + 1
    IN IF dp >= Len(self.tape)
       THEN IF self.tape_can_grow
            THEN [self |-> [self EXCEPT !.dp = dp, !.tape = grow(self.tape, capacity)],
                  res |-> Ok(self.ip + 1)]
            ELSE [self |-> [self EXCEPT !.dp = dp - 1],
                  res |-> TapeRunOffError(self.ip)]
       ELSE [self |-> [self EXCEPT !.dp = dp], res |-> Ok(self.ip + 1)]

\* an increment that reaches every cell of the tape
increment_all(self) ==
    [self |-> [self EXCEPT !.tape = [k \in 1..Len(self.tape) |->
                                        wrapping_inc(self.tape[k], self.cell)]],
     res  |-> Ok(self.ip + 1)]

\* machine.rs:195-198  Machine::increment_cell
increment_cell(self) ==
    [self |-> [self EXCEPT !.tape[self.dp + 1] = wrapping_inc(self.tape[self.dp + 1], self.cell)],
     res  |-> Ok(self.ip + 1)]

\* machine.rs:201-204  Machine::decrement_cell
decrement_cell(self) ==
    [self |-> [self EXCEPT !.tape[self.dp + 1] = wrapping_dec(self.tape[self.dp + 1], self.cell)],
     res  |-> Ok(self.ip + 1)]

\* a read_value that leaves the byte it read on the channel
read_value_peek(self, reader) ==
    IF reader = <<>>
    THEN [self |-> self, reader |-> reader,
          res |-> IoError(self.ip, "UnexpectedEof")]
    ELSE [self |-> [self EXCEPT !.tape[self.dp + 1] = set_value(Head(reader))],
          reader |-> reader,
          res |-> Ok(self.ip + 1)]

\* a read_value that takes the end of the input for a zero byte
read_value_eof_zero(self, reader) ==
    IF reader = <<>>
    THEN [self |-> [self EXCEPT !.tape[self.dp + 1] = 0], reader |-> reader,
          res |-> Ok(self.ip + 1)]
    ELSE [self |-> [self EXCEPT !.tape[self.dp + 1] = set_value(Head(reader))],
          reader |-> Tail(reader),
          res |-> Ok(self.ip + 1)]

\* machine.rs:207-219  Machine::read_value; reader is the bytes not yet read
read_value(self, reader) ==
    IF reader = <<>>
    THEN [self |-> self, reader |-> reader,
          res |-> IoError(self.ip, "UnexpectedEof")]
    ELSE [self |-> [self EXCEPT !.tape[self.dp + 1] = set_value(Head(reader))],
          reader |-> Tail(reader),
          res |-> Ok(self.ip + 1)]

\* a byte sink: the bytes it holds, and how many more it accepts when bounded
Sink(bytes, bounded, room) == [bytes |-> bytes, bounded |-> bounded, room |-> room]

\* io::Write::write_all on a sink: every byte is written, or those the sink
\* still accepts are written and the call fails with WriteZero
write_all(writer, buf) ==
    IF ~writer.bounded
    THEN [writer |-> [writer EXCEPT !.bytes = writer.bytes \o buf], ok |-> TRUE]
    ELSE IF Len(buf) <= writer.room
    THEN [writer |-> [writer EXCEPT !.bytes = writer.bytes \o buf,
                                    !.room = writer.room - Len(buf)],
          ok |-> TRUE]
    ELSE [writer |-> [writer EXCEPT !.bytes = writer.bytes \o SubSeq(buf, 1, writer.room),
                                    !.room = 0],
          ok |-> FALSE]

\* machine.rs:222-233  Machine::write_value
write_value(self, writer) ==
    LET buf == as_bytes(self.tape[self.dp + 1], self.cell)
        w   == write_all(writer, buf)
    IN IF ~w.ok
       THEN [self |-> self, writer |-> w.writer, res |-> IoError(self.ip, "WriteZero")]
       ELSE [self |-> self, writer |-> w.writer, res |-> Ok(self.ip + 1)]

\* a jump_if_zero that lands one past its dest
jump_past(self, dest) ==
    IF is_zero(self.tape[self.dp + 1])
    THEN [self |-> self, res |-> Ok(dest + 1)]
    ELSE [self |-> self, res |-> Ok(self.ip + 1)]

\* a jump_if_zero with the test inverted
jump_if_nonzero(self, dest) ==
    IF is_zero(self.tape[self.dp + 1])
    THEN [self |-> self, res |-> Ok(self.ip + 1)]
    ELSE [self |-> self, res |-> Ok(dest)]

\* machine.rs:236-242  Machine::jump_if_zero
jump_if_zero(self, dest) ==
    IF is_zero(self.tape[self.dp + 1])
    THEN [self |-> self, res |-> Ok(dest)]
    ELSE [self |-> self, res |-> Ok(self.ip + 1)]

\* a `]` that tests the cell, as the `[` does
jump_back_if_nonzero(self, instr) ==
    IF is_zero(self.tape[self.dp + 1])
    THEN [self |-> self, res |-> Ok(self.ip + 1)]
    ELSE [self |-> self, res |-> Ok(instr.dest)]

\* machine.rs:150  the Jnz arm of run: the next ip is the value the
\* instruction carries, whatever the cell holds
jump_back(self, instr) ==
    [self |-> self, res |-> Ok(instr.dest)]

\* ------------------------------------------------------- the NewlineWrap
\* newline_wrap.rs:50  b'\n'
Newline == 10

\* a byte that is not a line terminator (b'a')
Letter == 97

\* what one call of the inner sink's io::Write::write may return for a
\* buffer: an error, with nothing written, or Ok(n), with the first
\* n <= buf.len() bytes written
WriteResults(buf) ==
    {[ok |-> FALSE]} \cup {[ok |-> TRUE, n |-> n] : n \in 0..Len(buf)}

\* newline_wrap.rs:25-30  NewlineWrap::new; the inner sink is the bytes it
\* has received
NewlineWrap(writer) == [inner |-> writer, last_written |-> 0]

\* a write that records the last byte of the buffer before the inner sink
\* is asked
write_eager(self, buf, res) ==
    LET seen == IF buf # <<>> THEN buf[Len(buf)] ELSE self.last_written
    IN IF ~res.ok
       THEN [self |-> [self EXCEPT !.last_written = seen], res |-> res]
       ELSE [self |-> [inner |-> self.inner \o SubSeq(buf, 1, res.n),
                       last_written |-> seen],
             res |-> res]

\* newline_wrap.rs:34-41  NewlineWrap::write; res is what inner.write(buf)
\* returns
write(self, buf, res) ==
    IF ~res.ok
    THEN [self |-> self, res |-> res]
    ELSE [self |-> [inner |-> self.inner \o SubSeq(buf, 1, res.n),
                    last_written |-> IF buf # <<>> THEN buf[Len(buf)]
                                     ELSE self.last_written],
          res |-> res]

\* newline_wrap.rs:48-55  Drop for NewlineWrap: write_all of the one byte
\* is one call of write, whose result is thrown away; res is what the inner
\* sink returns to it
drop(self, res) ==
    IF self.last_written # Newline
    THEN write(self, <<Newline>>, res).self
    ELSE self

\* -------------------------------------------------------- the front end
\* machine.rs:34  DEFAULT_TAPE_SIZE
DEFAULT_TAPE_SIZE == 30000

\* the decimal digits, in order of value
Digits == <<"0", "1", "2", "3", "4", "5", "6", "7", "8", "9">>

\* char::to_digit(10) of a decimal digit
to_digit(c) == (CHOOSE d \in 1..Len(Digits) : Digits[d] = c) - 1

\* the value of a sequence of decimal digits
RECURSIVE Decimal(_)
Decimal(ds) ==
    IF ds = <<>> THEN 0
    ELSE 10 * Decimal(SubSeq(ds, 1, Len(ds) - 1)) + to_digit(ds[Len(ds)])

\* usize::from_str, which number_range calls: an optional `+`, then one or
\* more decimal digits; a value of at most MaxArgLen digits is below
\* usize::MAX, so the overflow error is not met
parse(s) ==
    LET ds == IF s # <<>> /\ s[1] = "+" THEN Tail(s) ELSE s
    IN IF ds = <<>> \/ \E k \in 1..Len(ds) : \A d \in 1..Len(Digits) : Digits[d] # ds[k]
       THEN [ok |-> FALSE]
       ELSE [ok |-> TRUE, val |-> Decimal(ds)]

\* clap_num::number_range(s, min, usize::MAX) as called at cli.rs:25: the
\* parsed value, or an error when it is not a number or is below min: no
\* usize is above usize::MAX
number_range(s, min) ==
    LET r == parse(s)
    IN IF r.ok /\ r.val < min THEN [ok |-> FALSE] ELSE r

\* a value parser that lets zero through
allow_zero(s) == number_range(s, 0)

\* cli.rs:24-26  forbid_zero
forbid_zero(s) == number_range(s, 1)

\* cli.rs:7-22  Args::parse for the options --cells and --extensible: cells
\* is the sequence of the values given (none or one); a value the parser
\* rejects ends the process
Args_parse(argv) ==
    LET c == IF argv.cells = <<>> THEN [ok |-> TRUE, val |-> DEFAULT_TAPE_SIZE]
             ELSE forbid_zero(argv.cells[1])
    IN IF c.ok
       THEN [parsed |-> TRUE, ok |-> TRUE, argv |-> argv,
             cells |-> c.val, extensible |-> argv.extensible]
       ELSE [parsed |-> TRUE, ok |-> FALSE, argv |-> argv]

\* ------------------------------------------------------------------ state
VARIABLES
    src,      \* the source text handed to the loader
    driver,   \* who drives the machine: "main" (run_bft) or "test" (the unit tests)
    pc,       \* "load", "failed", "new", "run", "test" or "returned"; "wrap" or
              \* "dropped" for a NewlineWrap; "cli", "exit" or "built" for the front end
    loaded,   \* what Program::try_new returned
    machine,  \* the Machine
    input,    \* the input channel: the bytes not yet read
    output,   \* the output channel, a Sink
    ret,      \* what Machine::run returned
    wrapped,  \* a NewlineWrap around a sink
    args,     \* the command line, and what Args::parse made of it
    last      \* the last step taken by the machine: the state before it and its result

vars == <<src, driver, pc, loaded, machine, input, output, ret, wrapped, args, last>>

\* the name the tests hand to try_new (program.rs:218)
Filename == "-"

\* a hello-world style program: adds 2 into the second cell and prints it
HelloWorld == <<"+", "+", "[", ">", "+", "<", "-", "]", ">", ".">>

\* a loop whose body clears the cell it tests
ClearLoop == <<"+", "[", "-", "]">>

\* program.rs:217  the source of test_parse_basic
Alphabet == BF_ALPHABET

\* n copies of c
Repeat(c, n) == [k \in 1..n |-> c]

\* program.rs:261  eight opens followed by nine closes
ExtraClose == Repeat("[", 8) \o Repeat("]", 9)

\* program.rs:269  nine opens followed by eight closes
MissingClose == Repeat("[", 9) \o Repeat("]", 8)

\* a loop inside a loop, with a comment and a line break between them
Nested == <<"+", "[", "x", "\n", "x", "[", "-", "]", "]">>

\* the texts of the loader specification
Texts ==
    SeqsUpTo(TextChars, MaxTextLen)
        \cup {Alphabet, ExtraClose, MissingClose, HelloWorld, ClearLoop, Nested}

\* a source of comment characters only
CommentOnly == <<"x", "\n">>

\* the programs of the machine specification
ProgTexts == SeqsUpTo(OpChars, MaxProgLen) \cup {HelloWorld, ClearLoop, CommentOnly}

\* bytes an input channel may hold
InBytes == {0, 255}

\* a channel of two different bytes, as the four of test_read_value
\* (machine.rs:385) are read one after the other
TwoBytes == <<255, 0>>

\* the input channels
Inputs == SeqsUpTo(InBytes, MaxInput) \cup {TwoBytes}

\* the output channels: a Vec, which accepts every byte, and sinks that
\* accept no byte or one byte
Sinks == {Sink(<<>>, FALSE, 0), Sink(<<>>, TRUE, 0), Sink(<<>>, TRUE, 1)}

\* machine.rs:38  enum TapeKind
TapeKinds == {"Growable", "FixedSize"}

\* the jump destination the unit test hands to jump_if_zero (machine.rs:444)
TestDests == {1234}

\* before Program::try_new has returned
NotLoaded == [ok |-> FALSE]

\* before Machine::new has returned
NoMachine == new(0, "FixedSize", [filename |-> Filename, instructions |-> <<>>], "u8")

\* before Machine::run has returned
NoRet == [ok |-> FALSE, kind |-> "none"]

\* no NewlineWrap has been made
NoWrap == [inner |-> <<>>, last_written |-> 0]

\* no command line has been read
NoArgs == [parsed |-> FALSE]

\* before the machine has taken a step
NoLast == [op |-> "none", prev |-> <<"none", TRUE>>]

\* the state the loader and the machine start from
InitVars ==
    /\ pc = "load"
    /\ loaded = NotLoaded
    /\ machine = NoMachine
    /\ ret = NoRet
    /\ wrapped = NoWrap
    /\ args = NoArgs
    /\ last = NoLast

\* the text has an Input opcode, so a run may read the input channel
Reads(text) == \E k \in 1..Len(text) : text[k] = ","

\* main.rs:31-45 and the unit tests of machine.rs: a program, an input
\* channel and an output channel. A program run without an Input opcode
\* never reads its channel, so one channel, the empty one, stands for all;
\* the programs without any opcode are run with every channel
Init ==
    /\ driver \in {"main", "test"}
    /\ src \in (IF driver = "main" THEN ProgTexts ELSE {HelloWorld})
    /\ input \in (IF driver = "main" /\ ~Reads(src) /\ tokens(src) # <<>>
                  THEN {<<>>} ELSE Inputs)
    /\ output \in Sinks
    /\ InitVars

\* program.rs:232-284 and 215-230: a text handed to Program::try_new
InitLoad ==
    /\ driver = "test"
    /\ src \in Texts
    /\ input = <<>>
    /\ output = Sink(<<>>, FALSE, 0)
    /\ InitVars

\* program.rs:38-110 called from program.rs:125  Program::try_new returns
Load ==
    /\ pc = "load"
    /\ loaded' = try_new(Filename, src)
    /\ pc' = IF loaded'.ok THEN "new" ELSE "failed"
    /\ UNCHANGED <<src, driver, machine, input, output, ret, wrapped, args, last>>

\* main.rs:41 and machine.rs:290, 306, 414: Machine::new with a positive size
New ==
    /\ pc = "new"
    /\ \E tape_size \in 1..MaxTapeSize, tape_kind \in TapeKinds,
          cell \in (IF driver = "main" THEN {"u8"} ELSE Cells) :
          machine' = new(tape_size, tape_kind, loaded.program, cell)
    /\ pc' = IF driver = "main" THEN "run" ELSE "test"
    /\ UNCHANGED <<src, driver, loaded, input, output, ret, wrapped, args, last>>

\* Program::instructions of the machine's program
instructions == machine.program.instructions

\* machine.rs:141  the loop of run is at an instruction with this opcode
Fetched(op) ==
    /\ pc = "run"
    /\ machine.ip < Len(instructions)
    /\ instructions[machine.ip + 1].op = op

\* the unit tests may call a step method directly (machine.rs:287-449)
Called == pc = "test" /\ machine.ip < MaxCalls

\* machine.rs:142-151 and the `?`: a step's result taken up. Under run an
\* error is returned at once; a test assigns the returned ip (machine.rs:297).
\* last records the step: its opcode, its argument, the machine and the
\* channels before it, its result, and the opcode and success of the step before
Taken(op, arg, r) ==
    /\ last' = [op |-> op, arg |-> arg, before |-> machine, input |-> input,
                output |-> output, res |-> r.res,
                prev |-> IF last.op = "none" THEN <<"none", TRUE>>
                         ELSE <<last.op, last.res.ok>>]
    /\ machine' = IF r.res.ok THEN [r.self EXCEPT !.ip = r.res.ip] ELSE r.self
    /\ pc' = IF ~r.res.ok /\ pc = "run" THEN "returned" ELSE pc
    /\ ret' = IF ~r.res.ok /\ pc = "run" THEN r.res ELSE ret
    /\ UNCHANGED <<src, driver, loaded, wrapped, args>>

\* capacities tape.capacity() may report after reserve(1)
Capacities(self) ==
    IF self.dp + 1 >= Len(self.tape) /\ self.tape_can_grow
    THEN {c \in (Len(self.tape) + 1)..(Len(self.tape) + 1 + MaxSpare) :
            c > self.dp + 1 /\ c <= MaxTapeLen}
    ELSE {Len(self.tape)}

\* machine.rs:143  Instruction::Inc
MoveRight ==
    /\ Fetched("Inc") \/ Called
    /\ \E capacity \in Capacities(machine) :
          Taken("Inc", capacity, move_head_right(machine, capacity))
    /\ UNCHANGED <<input, output>>

\* machine.rs:144  Instruction::Dec
MoveLeft ==
    /\ Fetched("Dec") \/ Called
    /\ Taken("Dec", 0, move_head_left(machine))
    /\ UNCHANGED <<input, output>>

\* machine.rs:145  Instruction::Succ
Increment ==
    /\ Fetched("Succ") \/ Called
    /\ Taken("Succ", 0, increment_cell(machine))
    /\ UNCHANGED <<input, output>>

\* machine.rs:146  Instruction::Pred
Decrement ==
    /\ Fetched("Pred") \/ Called
    /\ Taken("Pred", 0, decrement_cell(machine))
    /\ UNCHANGED <<input, output>>

\* machine.rs:147  Instruction::In
Input ==
    /\ Fetched("In") \/ Called
    /\ LET r == read_value(machine, input)
       IN Taken("In", 0, r) /\ input' = r.reader
    /\ UNCHANGED output

\* machine.rs:148  Instruction::Out
Output ==
    /\ Fetched("Out") \/ Called
    /\ Len(output.bytes) < MaxOut
    /\ LET r == write_value(machine, output)
       IN Taken("Out", 0, r) /\ output' = r.writer
    /\ UNCHANGED input

\* machine.rs:149  Instruction::Jz { dest }
JumpIfZero ==
    /\ Fetched("Jz") \/ Called
    /\ \E dest \in (IF pc = "test" THEN TestDests
                    ELSE {instructions[machine.ip + 1].dest}) :
          Taken("Jz", dest, jump_if_zero(machine, dest))
    /\ UNCHANGED <<input, output>>

\* machine.rs:150  Instruction::Jnz
JumpIfNonZero ==
    /\ Fetched("Jnz")
    /\ Taken("Jnz", instructions[machine.ip + 1].dest,
             jump_back(machine, instructions[machine.ip + 1]))
    /\ UNCHANGED <<input, output>>

\* a run whose loop ends one instruction early
ReturnEarly ==
    /\ pc = "run"
    /\ machine.ip + 1 >= Len(instructions)
    /\ pc' = "returned"
    /\ ret' = [ok |-> TRUE]
    /\ UNCHANGED <<src, driver, loaded, machine, input, output, wrapped, args, last>>

\* machine.rs:141, 154  ip is past the last instruction: run returns Ok(())
Return ==
    /\ pc = "run"
    /\ machine.ip >= Len(instructions)
    /\ pc' = "returned"
    /\ ret' = [ok |-> TRUE]
    /\ UNCHANGED <<src, driver, loaded, machine, input, output, wrapped, args, last>>

\* machine.rs:136-155 under main.rs:37-42, and the calls of the unit tests
Next ==
    \/ Load
    \/ New
    \/ MoveRight
    \/ MoveLeft
    \/ Increment
    \/ Decrement
    \/ Input
    \/ Output
    \/ JumpIfZero
    \/ JumpIfNonZero
    \/ Return

Spec == Init /\ [][Next]_vars

\* run is a sequential loop: whenever the front end can load, build or step,
\* it does
FairSpec == Init /\ [][Next]_vars /\ WF_vars(driver = "main" /\ Next)

\* the loader alone
NextLoad == Load

SpecLoad == InitLoad /\ [][NextLoad]_vars

\* --------------------------------------------- the NewlineWrap in use
\* the buffers handed to write
Bufs == SeqsUpTo({Newline, Letter}, MaxBufLen)

\* before any call of write: last records, for a NewlineWrap, the call, its
\* buffer and what the inner sink returned, the wrap before the call, the
\* last byte handed to any write, the last byte handed to a write that
\* returned Ok, and the number of calls
NoWrite == [op |-> "none", passed |-> <<>>, passed_ok |-> <<>>, calls |-> 0]

\* newline_wrap.rs:15-24: a NewlineWrap made around an empty Vec
InitWrap ==
    /\ driver = "test"
    /\ src = <<>>
    /\ input = <<>>
    /\ output = Sink(<<>>, FALSE, 0)
    /\ pc = "wrap"
    /\ loaded = NotLoaded
    /\ machine = NoMachine
    /\ ret = NoRet
    /\ args = NoArgs
    /\ wrapped = NewlineWrap(<<>>)
    /\ last = NoWrite

\* newline_wrap.rs:34-41  a caller calls write
WrapWrite ==
    /\ pc = "wrap"
    /\ last.calls < MaxWrites
    /\ \E buf \in Bufs : \E res \in WriteResults(buf) :
          /\ wrapped' = write(wrapped, buf, res).self
          /\ last' = [op |-> "write", buf |-> buf, res |-> res, before |-> wrapped,
                      passed |-> IF buf # <<>> THEN <<buf[Len(buf)]>> ELSE last.passed,
                      passed_ok |-> IF buf # <<>> /\ res.ok THEN <<buf[Len(buf)]>>
                                    ELSE last.passed_ok,
                      calls |-> last.calls + 1]
    /\ UNCHANGED <<src, driver, pc, loaded, machine, input, output, ret, args>>

\* newline_wrap.rs:48-55  the NewlineWrap goes out of scope
WrapDrop ==
    /\ pc = "wrap"
    /\ \E res \in (IF wrapped.last_written # Newline
                    THEN WriteResults(<<Newline>>) ELSE {[ok |-> TRUE, n |-> 0]}) :
          /\ wrapped' = drop(wrapped, res)
          /\ last' = [op |-> "drop", asked |-> (wrapped.last_written # Newline),
                      res |-> res, before |-> wrapped,
                      passed |-> last.passed, passed_ok |-> last.passed_ok,
                      calls |-> last.calls]
    /\ pc' = "dropped"
    /\ UNCHANGED <<src, driver, loaded, machine, input, output, ret, args>>

NextWrap ==
    \/ WrapWrite
    \/ WrapDrop

SpecWrap == InitWrap /\ [][NextWrap]_vars

\* ------------------------------------------------- the front end in use
\* characters of the values given to --cells
ArgChars == {"0", "1", "2", "+", "x"}

\* the command lines: --cells absent or given once, --extensible or not
Argvs ==
    [cells : {<<>>} \cup {<<s>> : s \in SeqsUpTo(ArgChars, MaxArgLen)},
     extensible : BOOLEAN]

\* main.rs:16-17: the process starts with a command line
InitCli ==
    /\ driver = "main"
    /\ src = <<>>
    /\ input = <<>>
    /\ output = Sink(<<>>, FALSE, 0)
    /\ pc = "cli"
    /\ loaded = NotLoaded
    /\ machine = NoMachine
    /\ ret = NoRet
    /\ wrapped = NoWrap
    /\ last = NoLast
    /\ \E argv \in Argvs : args = [parsed |-> FALSE, argv |-> argv]

\* main.rs:17  Args::parse
ParseArgs ==
    /\ pc = "cli"
    /\ args' = Args_parse(args.argv)
    /\ pc' = IF args'.ok THEN "parsed" ELSE "exit"
    /\ UNCHANGED <<src, driver, loaded, machine, input, output, ret, wrapped, last>>

\* main.rs:32-41  run_bft up to Machine::new
BuildMachine ==
    /\ pc = "parsed"
    /\ loaded' = try_new(Filename, src)
    /\ loaded'.ok
    /\ LET tape_kind == IF args.extensible THEN "Growable" ELSE "FixedSize"
       IN machine' = new(args.cells, tape_kind, loaded'.program, "u8")
    /\ pc' = "built"
    /\ UNCHANGED <<src, driver, input, output, ret, wrapped, args, last>>

NextCli ==
    \/ ParseArgs
    \/ BuildMachine

SpecCli == InitCli /\ [][NextCli]_vars

\* ----------------------------------------------------- bracket structure
\* The nesting of a sequence of characters, defined without the loader's
\* stack: the depth after the first n characters
Depth(s, n) ==
    Cardinality({k \in 1..n : s[k] = "["}) - Cardinality({k \in 1..n : s[k] = "]"})

\* positions (one-based) of the close brackets that close the open bracket at i
ClosesOf(s, i) ==
    {j \in (i + 1)..Len(s) : s[j] = "]" /\ Depth(s, j) = Depth(s, i - 1)}

\* the close bracket matching the open bracket at position i
CloseOf(s, i) == CHOOSE j \in ClosesOf(s, i) : \A k \in ClosesOf(s, i) : j <= k

\* the open bracket matching the close bracket at position j
OpenOf(s, j) ==
    CHOOSE i \in 1..j : s[i] = "[" /\ ClosesOf(s, i) # {} /\ CloseOf(s, i) = j

\* the brackets of an instruction sequence
Shape(ins) ==
    [k \in 1..Len(ins) |->
        IF ins[k].op = "Jz" THEN "[" ELSE IF ins[k].op = "Jnz" THEN "]" ELSE "."]

\* the cell under the head before the last step
CellBefore == last.before.tape[last.before.dp + 1]

\* the instruction the last step of a run executed
InstrBefore == last.before.program.instructions[last.before.ip + 1]

\* -------------------------------------------- properties of the run loop
\* C1: a hello-world style program (`++[>+<-]>.`) run on an 8-bit tape that
\* has room for it, with an empty input channel and a sink that accepts
\* every byte, eventually returns Ok with exactly the byte 2 written.
C1_HelloWorldReturns ==
    (/\ driver = "main" /\ src = HelloWorld /\ pc = "run" /\ machine.ip = 0
     /\ machine.cell = "u8" /\ Len(machine.tape) >= 2 /\ input = <<>>
     /\ ~output.bounded)
        ~> (pc = "returned" /\ ret.ok /\ output.bytes = <<2>>)

\* C2: a `]` dispatched by run with a nonzero cell sets ip to the index just
\* after the matching `[`; with a zero cell it sets ip to ip + 1.
C2_JnzTestsCell ==
    (pc \in {"run", "returned"} /\ last.op = "Jnz") =>
        LET j == last.before.ip
            i == OpenOf(Shape(last.before.program.instructions), j + 1) - 1
        IN machine.ip = IF CellBefore # 0 THEN i + 1 ELSE j + 1

C4_JumpIfZero ==
    last.op = "Jz" =>
        /\ last.res.ok
        /\ machine.ip = IF CellBefore = 0 THEN last.arg ELSE last.before.ip + 1
        /\ pc = "run" => last.arg = InstrBefore.dest

\* C4 witness: a `[` was run with a zero cell and the jump was taken to a
\* dest other than the next instruction
C4_Witness ==
    /\ pc = "run"
    /\ last.op = "Jz"
    /\ CellBefore = 0
    /\ machine.ip = InstrBefore.dest
    /\ machine.ip # last.before.ip + 1

\* ------------------------------------------- properties of the loader
\* the least and the greatest element of a non-empty set of numbers
Least(S) == CHOOSE a \in S : \A b \in S : a <= b
Greatest(S) == CHOOSE a \in S : \A b \in S : b <= a

\* the line and column, zero-based, of the character at position k (one-based)
\* of a text: the line feeds before it, and the characters since the last one
LocOf(text, k) ==
    LET feeds == {n \in 1..(k - 1) : text[n] = "\n"}
    IN [line |-> Cardinality(feeds), column |-> k - 1 - Greatest(feeds \cup {0})]

\* the open brackets of a text that no close bracket closes
UnmatchedOpens(text) ==
    {k \in 1..Len(text) : text[k] = "[" /\ ClosesOf(text, k) = {}}

\* the close brackets of a text met while no open bracket is pending
UnopenedCloses(text) ==
    {k \in 1..Len(text) : text[k] = "]" /\ Depth(text, k) < 0}

\* Program::try_new has returned
Loaded == pc # "load"

\* C5: in every accepted program each `[` at index i whose matching `]` is
\* at index j has dest = j + 1, that `]` has dest = i + 1, and every `]`
\* is the match of some `[`.
C5_JumpSymmetry ==
    (Loaded /\ loaded.ok) =>
        LET ins == loaded.program.instructions
            sh  == Shape(ins)
        IN /\ \A i \in 0..(Len(ins) - 1) :
                 ins[i + 1].op = "Jz" =>
                    /\ ClosesOf(sh, i + 1) # {}
                    /\ LET j == CloseOf(sh, i + 1) - 1
                       IN /\ ins[i + 1].dest = j + 1
                          /\ ins[j + 1].op = "Jnz"
                          /\ ins[j + 1].dest = i + 1
           /\ \A j \in 0..(Len(ins) - 1) :
                 ins[j + 1].op = "Jnz" =>
                    \E i \in 0..(Len(ins) - 1) :
                        /\ ins[i + 1].op = "Jz"
                        /\ ClosesOf(sh, i + 1) # {}
                        /\ CloseOf(sh, i + 1) = j + 1

\* C5 witness: an accepted program with a loop nested in a loop
C5_Witness ==
    /\ Loaded /\ loaded.ok
    /\ \E i \in 1..(Len(loaded.program.instructions) - 1) :
          /\ loaded.program.instructions[i].op = "Jz"
          /\ loaded.program.instructions[i + 1].op = "Jz"
          /\ loaded.program.instructions[i].dest > loaded.program.instructions[i + 1].dest

\* the scan of the text ends with open brackets unmatched
EndsUnclosed == UnopenedCloses(src) = {} /\ UnmatchedOpens(src) # {}

\* C6 as claimed: when the scan ends with open brackets unmatched, try_new
\* fails with UnclosedBracket at the first (outermost) unmatched open bracket.
C6_UnclosedAtFirst ==
    (Loaded /\ EndsUnclosed) =>
        /\ ~loaded.ok
        /\ loaded.err.kind = "UnclosedBracket"
        /\ loaded.err.location = LocOf(src, Least(UnmatchedOpens(src)))

\* C6 as amended: when the scan ends with open brackets unmatched, try_new
\* fails with UnclosedBracket at the unmatched open bracket that no other
\* unmatched open bracket follows (the innermost, last pushed); nine opens
\* and eight closes, where only the first open is unmatched, report column 0.
C6_UnclosedAtLast ==
    (Loaded /\ EndsUnclosed) =>
        /\ ~loaded.ok
        /\ loaded.err.kind = "UnclosedBracket"
        /\ \E k \in UnmatchedOpens(src) :
              /\ loaded.err.location = LocOf(src, k)
              /\ \A n \in UnmatchedOpens(src) : n <= k
        /\ src = MissingClose => loaded.err.location = SourceLocation(0, 0)

\* C6 witness: three open brackets left unmatched, the error at the last
C6_Witness ==
    /\ Loaded /\ EndsUnclosed
    /\ Cardinality(UnmatchedOpens(src)) >= 3
    /\ loaded.err.location = LocOf(src, Greatest(UnmatchedOpens(src)))
    /\ loaded.err.location # LocOf(src, Least(UnmatchedOpens(src)))

\* C7: when several open brackets are left unmatched, try_new fails with
\* UnclosedBracket at the most recently opened one; `[[` reports line 0
\* column 1.
C7_UnclosedMostRecent ==
    (Loaded /\ EndsUnclosed /\ Cardinality(UnmatchedOpens(src)) >= 2) =>
        /\ ~loaded.ok
        /\ loaded.err.kind = "UnclosedBracket"
        /\ loaded.err.location = LocOf(src, Greatest(UnmatchedOpens(src)))
        /\ src = <<"[", "[">> => loaded.err.location = SourceLocation(0, 1)

\* C7 witness: `[[` was loaded and failed at column 1
C7_Witness ==
    /\ Loaded
    /\ src = <<"[", "[">>
    /\ ~loaded.ok
    /\ loaded.err.kind = "UnclosedBracket"
    /\ loaded.err.location = SourceLocation(0, 1)

\* C8: try_new fails with UnopenedBracket exactly when a close bracket is
\* met while no open bracket is pending, at the location of the first such
\* close bracket, and what follows that bracket has no influence: the
\* result is that of the text cut after it.
C8_UnopenedAtFirstClose ==
    Loaded =>
        /\ (~loaded.ok /\ loaded.err.kind = "UnopenedBracket") <=> UnopenedCloses(src) # {}
        /\ UnopenedCloses(src) # {} =>
              LET k == Least(UnopenedCloses(src))
              IN /\ loaded.err.location = LocOf(src, k)
                 /\ loaded = try_new(Filename, SubSeq(src, 1, k))
        /\ src \in {<<"]">>, <<"]", "]">>, <<"]", "[">>} =>
              loaded.err.location = SourceLocation(0, 0)
        /\ src = ExtraClose => loaded.err.location = SourceLocation(0, 16)

\* C8 witness: a text whose first unopened close bracket is not its first
\* character and is followed by further brackets
C8_Witness ==
    /\ Loaded
    /\ ~loaded.ok
    /\ loaded.err.kind = "UnopenedBracket"
    /\ loaded.err.location.column > 0
    /\ \E k \in 1..Len(src) :
          /\ k > Least(UnopenedCloses(src))
          /\ src[k] \in {"[", "]"}

\* the eight symbols, written out
EightSymbols == {">", "<", "+", "-", ".", ",", "[", "]"}

\* what a load decides apart from the location: success with the
\* instruction sequence, or the kind of error
Outcome(r) ==
    IF r.ok THEN [ok |-> TRUE, instructions |-> r.program.instructions]
    ELSE [ok |-> FALSE, kind |-> r.err.kind]

\* the text without its character at position k
Without(text, k) == SubSeq(text, 1, k - 1) \o SubSeq(text, k + 1, Len(text))

\* the text with c put after its first k characters
With(text, k, c) == SubSeq(text, 1, k) \o <<c>> \o SubSeq(text, k + 1, Len(text))

\* C9: removing a character outside the eight-symbol alphabet from the
\* text, or inserting one anywhere (a comment character, a line break, a
\* non-ASCII character), changes neither success, nor the error kind, nor
\* the instruction sequence with its jump dests.
C9_CommentsIgnored ==
    Loaded =>
        /\ \A k \in 1..Len(src) :
              src[k] \notin EightSymbols =>
                 Outcome(try_new(Filename, Without(src, k))) = Outcome(loaded)
        /\ \A k \in 0..Len(src) : \A c \in TextChars \ EightSymbols :
              Outcome(try_new(Filename, With(src, k, c))) = Outcome(loaded)

\* C9 witness: an accepted text with a comment character and a line break
\* between the two brackets of a loop
C9_Witness ==
    /\ Loaded /\ loaded.ok
    /\ \E i, k, n, j \in 1..Len(src) :
          /\ i < k /\ i < n /\ k < j /\ n < j
          /\ src[i] = "[" /\ src[k] = "x" /\ src[n] = "\n" /\ src[j] = "]"
    /\ \E i \in 1..Len(loaded.program.instructions) :
          loaded.program.instructions[i].op = "Jz"

\* ------------------------------------------- properties of the tape
\* the last step was a MoveRight on a fixed-size tape
FixedMoveRight == last.op = "Inc" /\ ~last.before.tape_can_grow

\* C10: on a FixedSize tape of length N a MoveRight with dp < N - 1
\* succeeds, returns ip + 1 and raises dp by one, so from dp = 0 the first
\* N - 1 succeed; a MoveRight with dp = N - 1 fails with TapeRunOffError
\* carrying the current ip and leaves dp at N - 1 and the tape at length N;
\* an Increment or Decrement that follows the failure changes cell N - 1.
C10_FixedTapeRunOff ==
    /\ FixedMoveRight =>
          LET N == Len(last.before.tape)
          IN /\ last.before.dp <= N - 1
             /\ last.before.dp < N - 1 =>
                   /\ last.res = Ok(last.before.ip + 1)
                   /\ machine.ip = last.before.ip + 1
                   /\ machine.dp = last.before.dp + 1
             /\ last.before.dp = N - 1 =>
                   /\ last.res = TapeRunOffError(last.before.ip)
                   /\ machine.ip = last.before.ip
                   /\ machine.dp = N - 1
             /\ machine.tape = last.before.tape
    /\ (/\ last.op \in {"Succ", "Pred"}
        /\ last.prev = <<"Inc", FALSE>>
        /\ ~machine.tape_can_grow) =>
          LET N == Len(machine.tape)
          IN /\ last.before.dp = N - 1
             /\ machine.tape[N] # last.before.tape[N]
             /\ \A k \in 1..(N - 1) : machine.tape[k] = last.before.tape[k]

\* C10 witness: on a fixed tape of length N >= 2 the head was moved to
\* N - 1, a further MoveRight failed, and the Increment after it raised
\* cell N - 1
C10_Witness ==
    /\ pc = "test"
    /\ ~machine.tape_can_grow
    /\ Len(machine.tape) >= 2
    /\ last.op = "Succ"
    /\ last.prev = <<"Inc", FALSE>>
    /\ machine.dp = Len(machine.tape) - 1
    /\ machine.tape[Len(machine.tape)] = 1
    /\ machine.ip = Len(machine.tape)

\* the last step was a MoveRight on a growable tape
GrowableMoveRight == last.op = "Inc" /\ last.before.tape_can_grow

\* C11: on a Growable tape every MoveRight succeeds, raises dp by exactly
\* one and returns ip + 1, and after it tape.len() > dp; so do any number
\* of consecutive ones from a tape of length 1.
C11_GrowableMoveRight ==
    GrowableMoveRight =>
        /\ last.res = Ok(last.before.ip + 1)
        /\ machine.ip = last.before.ip + 1
        /\ machine.dp = last.before.dp + 1
        /\ Len(machine.tape) > machine.dp

\* C11 witness: three MoveRight in a row, and nothing else, were called on
\* a growable tape, which has grown past its largest initial size
C11_Witness ==
    /\ pc = "test"
    /\ GrowableMoveRight
    /\ last.prev = <<"Inc", TRUE>>
    /\ machine.dp = 3
    /\ machine.ip = 3
    /\ Len(machine.tape) > MaxTapeSize

\* C12: a MoveRight never shortens the tape; every cell below the old
\* length keeps its value at its index, and every cell added holds zero.
C12_GrowthPreserves ==
    last.op = "Inc" =>
        /\ Len(machine.tape) >= Len(last.before.tape)
        /\ \A k \in 1..Len(last.before.tape) : machine.tape[k] = last.before.tape[k]
        /\ \A k \in (Len(last.before.tape) + 1)..Len(machine.tape) : machine.tape[k] = 0

\* C12 witness: a MoveRight grew a tape that held a nonzero cell
C12_Witness ==
    /\ last.op = "Inc"
    /\ Len(machine.tape) > Len(last.before.tape)
    /\ \E k \in 1..Len(last.before.tape) :
          last.before.tape[k] # 0 /\ machine.tape[k] = last.before.tape[k]

\* C13: a MoveLeft with dp = 0 fails with TapeRunOffError carrying the
\* current ip and leaves dp at 0, whatever the tape kind; with dp > 0 it
\* lowers dp by exactly one and returns ip + 1. The tape is not touched.
C13_MoveLeft ==
    last.op = "Dec" =>
        /\ last.before.dp = 0 =>
              /\ last.res = TapeRunOffError(last.before.ip)
              /\ machine.dp = 0
              /\ machine.ip = last.before.ip
        /\ last.before.dp > 0 =>
              /\ last.res = Ok(last.before.ip + 1)
              /\ machine.dp = last.before.dp - 1
              /\ machine.ip = last.before.ip + 1
        /\ machine.tape = last.before.tape

\* C13 witness: on a growable tape a MoveLeft from cell 1 succeeded and the
\* next one, from cell 0, failed
C13_Witness ==
    /\ machine.tape_can_grow
    /\ last.op = "Dec"
    /\ ~last.res.ok
    /\ last.res.kind = "TapeRunOffError"
    /\ last.prev = <<"Dec", TRUE>>
    /\ machine.dp = 0

\* ------------------------------------------------- properties of run
\* the last step was an Input that found the channel exhausted, under run
InputExhausted == driver = "main" /\ last.op = "In" /\ last.input = <<>>

\* C14: when a program executes an Input with the input channel exhausted,
\* run returns IoError (unexpected end of input) whose ip_at_error is the
\* index of that Input; the output channel holds exactly what the earlier
\* Outputs wrote, and nothing is written after the failure.
C14_InputExhausted ==
    InputExhausted =>
        /\ pc = "returned"
        /\ ret = IoError(last.before.ip, "UnexpectedEof")
        /\ instructions[ret.ip_at_error + 1].op = "In"
        /\ machine = last.before
        /\ output = last.output
        /\ input = <<>>

\* C14 witness: a byte was read and written before the Input that failed
C14_Witness ==
    /\ InputExhausted
    /\ pc = "returned"
    /\ ret.ip_at_error = 2
    /\ output.bytes = <<255>>

\* the tape holds the default value in every cell
Blank(tape) == \A k \in 1..Len(tape) : tape[k] = 0

\* C15: run returns Ok exactly when ip is not an instruction index
\* (ip >= the number of instructions): at such an ip it returns Ok at once
\* and changes nothing, at an instruction index it returns only with an
\* error. For a program of zero instructions it returns Ok without a step:
\* no output, no input consumed, dp and the tape as they were built.
C15_ReturnsAtEnd ==
    /\ [](pc = "returned" => (ret.ok <=> machine.ip >= Len(instructions)))
    /\ [](pc = "returned" /\ Len(instructions) = 0 =>
              /\ ret.ok
              /\ last = NoLast
              /\ machine.dp = 0
              /\ Blank(machine.tape)
              /\ output.bytes = <<>>)
    /\ [][pc = "run" =>
              IF machine.ip >= Len(instructions)
              THEN /\ pc' = "returned"
                   /\ ret' = [ok |-> TRUE]
                   /\ UNCHANGED <<machine, input, output>>
              ELSE pc' = "returned" => ~ret'.ok]_vars

\* C15 witness: a comment-only source, run with bytes on the input channel,
\* has returned Ok and the bytes are still there
C15_Witness ==
    /\ src = CommentOnly
    /\ pc = "returned"
    /\ ret.ok
    /\ input = TwoBytes

\* a machine has been built
Built == pc \in {"run", "test", "returned"}

\* C16: for a machine built with a tape of at least one cell, dp <
\* tape.len() between instructions, after any sequence of steps on either
\* tape kind, also after a MoveLeft or a MoveRight that failed.
C16_HeadOnTape ==
    Built => machine.dp >= 0 /\ machine.dp < Len(machine.tape)

\* C16 witness: on a fixed tape of one cell a MoveLeft failed and then a
\* MoveRight failed
C16_Witness ==
    /\ pc = "test"
    /\ ~machine.tape_can_grow
    /\ last.op = "Inc"
    /\ ~last.res.ok
    /\ last.prev = <<"Dec", FALSE>>
    /\ machine.dp = Len(machine.tape) - 1

\* ----------------------------------------------- properties of the cells
\* the cell under the head after the last step
CellAfter == machine.tape[machine.dp + 1]

\* the last step left the head where it was and every other cell as it was
OnlyCellAtHead ==
    /\ machine.dp = last.before.dp
    /\ Len(machine.tape) = Len(last.before.tape)
    /\ \A k \in 1..Len(machine.tape) :
          k # machine.dp + 1 => machine.tape[k] = last.before.tape[k]

\* C17: Increment and Decrement change the cell at dp by +1 and -1 modulo
\* 2^width, return ip + 1 and never fail; on an 8-bit cell 0xFF is
\* incremented to 0x00 and 0x00 is decremented to 0xFF.
C17_WrappingCells ==
    /\ last.op = "Succ" =>
          /\ last.res = Ok(last.before.ip + 1)
          /\ OnlyCellAtHead
          /\ IF machine.cell = "u8"
             THEN CellAfter = (IF CellBefore = 255 THEN 0 ELSE CellBefore + 1)
             ELSE CellAfter = (IF CellBefore = 65535 THEN 0 ELSE CellBefore + 1)
    /\ last.op = "Pred" =>
          /\ last.res = Ok(last.before.ip + 1)
          /\ OnlyCellAtHead
          /\ IF machine.cell = "u8"
             THEN CellAfter = (IF CellBefore = 0 THEN 255 ELSE CellBefore - 1)
             ELSE CellAfter = (IF CellBefore = 0 THEN 65535 ELSE CellBefore - 1)

\* C17 witness: an 8-bit cell decremented from 0x00 to 0xFF has just been
\* incremented back to 0x00
C17_Witness ==
    /\ machine.cell = "u8"
    /\ last.op = "Succ"
    /\ last.prev = <<"Pred", TRUE>>
    /\ CellBefore = 255
    /\ CellAfter = 0

\* the bytes of a cell value of the given type, most significant first
BigEndian(v, cell) == IF cell = "u8" THEN <<v>> ELSE <<v \div 256, v % 256>>

\* C18: each successful Output on a cell of width W bits appends exactly
\* W/8 bytes to the output channel, most significant byte first (one byte
\* equal to the cell for an 8-bit cell), leaves the cell unchanged and
\* returns ip + 1.
C18_OutputBigEndian ==
    last.op = "Out" /\ last.res.ok =>
        /\ output.bytes = last.output.bytes \o BigEndian(CellBefore, machine.cell)
        /\ Len(output.bytes) = Len(last.output.bytes) + (Bits(machine.cell) \div 8)
        /\ machine.tape = last.before.tape
        /\ machine.dp = last.before.dp
        /\ last.res = Ok(last.before.ip + 1)

\* C18 witness: a 16-bit cell holding 0xFFFE was written as FF FE
C18_Witness ==
    /\ machine.cell = "u16"
    /\ last.op = "Out"
    /\ last.res.ok
    /\ CellBefore = 65534
    /\ output.bytes = <<255, 254>>

\* C19: each successful Input consumes exactly one byte b, the first of the
\* input channel, and leaves the rest in order; it sets the cell at dp to
\* the value b (0..255) whatever the cell held, so that the higher-order
\* bytes of a wider cell are zero, and returns ip + 1.
C19_InputOneByte ==
    last.op = "In" /\ last.res.ok =>
        /\ last.input # <<>>
        /\ last.input = <<Head(last.input)>> \o input
        /\ CellAfter = Head(last.input)
        /\ CellAfter \in 0..255
        /\ CellAfter \div 256 = 0
        /\ OnlyCellAtHead
        /\ last.res = Ok(last.before.ip + 1)

\* C19 witness: a 16-bit cell holding 0xFFFF read the first of two bytes
\* and holds 0x00FF; the second byte is left on the channel
C19_Witness ==
    /\ machine.cell = "u16"
    /\ last.op = "In"
    /\ last.res.ok
    /\ CellBefore = 65535
    /\ last.input = TwoBytes
    /\ CellAfter = 255
    /\ input = <<0>>

\* ------------------------------------------ properties of what is loaded
\* the opcode characters of the text, in order
Opcodes(text) ==
    LET at == {k \in 1..Len(text) : text[k] \in EightSymbols}
        nth(n) == CHOOSE k \in at : Cardinality({x \in at : x <= k}) = n
    IN [n \in 1..Cardinality(at) |-> text[nth(n)]]

\* the opcode character an instruction stands for
CharOf(instr) ==
    CASE instr.op = "Inc"  -> ">"
      [] instr.op = "Dec"  -> "<"
      [] instr.op = "Succ" -> "+"
      [] instr.op = "Pred" -> "-"
      [] instr.op = "Out"  -> "."
      [] instr.op = "In"   -> ","
      [] instr.op = "Jz"   -> "["
      [] instr.op = "Jnz"  -> "]"

\* C20: Program::try_new returns either an error or a complete Program,
\* never both and never a partial one: a returned Program has one
\* instruction for each opcode character of the text, in order; its `[`
\* and `]` instructions are equal in number and properly nested, and every
\* jump dest lies in 1..=len(instructions).
C20_ProgramOrError ==
    Loaded =>
        IF loaded.ok
        THEN LET ins == loaded.program.instructions
                 sh  == Shape(ins)
             IN /\ DOMAIN loaded = {"ok", "program"}
                /\ Len(ins) = Len(Opcodes(src))
                /\ \A n \in 1..Len(ins) : CharOf(ins[n]) = Opcodes(src)[n]
                /\ \A n \in 1..Len(ins) : Depth(sh, n) >= 0
                /\ Depth(sh, Len(ins)) = 0
                /\ \A n \in 1..Len(ins) :
                      ins[n].op \in {"Jz", "Jnz"} => ins[n].dest \in 1..Len(ins)
        ELSE /\ DOMAIN loaded = {"ok", "err"}
             /\ loaded.err.kind \in {"UnopenedBracket", "UnclosedBracket"}

\* C20 witness: an accepted program that is one loop from its first to its
\* last instruction, whose two dests are the ends of the range
C20_Witness ==
    /\ Loaded /\ loaded.ok
    /\ LET ins == loaded.program.instructions
       IN /\ Len(ins) >= 3
          /\ ins[1] = Jz(Len(ins))
          /\ ins[Len(ins)] = Jnz(1)

\* ------------------------------------ properties of the instruction pointer
\* C21: during run, ip changes only as the result of dispatching the
\* instruction at ip: after each successful step the new ip is the old
\* ip + 1 or the dest stored in the Jz/Jnz just executed, a failed step
\* leaves ip, and at all times 0 <= ip <= len(instructions).
C21_IpByDispatch ==
    /\ [](driver = "main" /\ Built =>
              /\ machine.ip \in 0..Len(instructions)
              /\ last.op # "none" =>
                    IF last.res.ok
                    THEN \/ machine.ip = last.before.ip + 1
                         \/ /\ InstrBefore.op \in {"Jz", "Jnz"}
                            /\ machine.ip = InstrBefore.dest
                    ELSE machine.ip = last.before.ip)
    /\ [][driver = "main" /\ Built /\ machine'.ip # machine.ip =>
              /\ pc = "run"
              /\ machine.ip < Len(instructions)
              /\ last'.before = machine
              /\ last'.op = instructions[machine.ip + 1].op
              /\ last'.res = Ok(machine'.ip)]_vars

\* C21 witness: a `[` dispatched with a zero cell has set ip to its dest,
\* the number of instructions, which is not the next index
C21_Witness ==
    /\ driver = "main"
    /\ pc = "run"
    /\ last.op = "Jz"
    /\ machine.ip = InstrBefore.dest
    /\ machine.ip = Len(instructions)
    /\ machine.ip > last.before.ip + 1

\* ------------------------------------------- properties of the location
\* the bracket a failed load reports
Offender(text) ==
    IF UnopenedCloses(text) # {} THEN Least(UnopenedCloses(text))
    ELSE Greatest(UnmatchedOpens(text))

\* the line breaks of a text before position k
FeedsBefore(text, k) == {n \in 1..(k - 1) : text[n] = "\n"}

\* the characters of a text before position k on the line of position k
OnLineBefore(text, k) ==
    {n \in 1..(k - 1) : \A f \in FeedsBefore(text, k) : f < n}

\* C22: the location carried by a bracket error is the zero-based line (the
\* number of line breaks before the bracket) and the zero-based column (the
\* number of characters before it on its line, comment characters
\* included) of the offending bracket in the unfiltered text; it is
\* displayed one-based as `line L+1 column C+1`.
C22_LocationInText ==
    (Loaded /\ ~loaded.ok) =>
        LET k   == Offender(src)
            loc == loaded.err.location
        IN /\ src[k] \in {"[", "]"}
           /\ loc.line = Cardinality(FeedsBefore(src, k))
           /\ loc.column = Cardinality(OnLineBefore(src, k))
           /\ IF loc.line = 0 THEN loc.column = k - 1
              ELSE src[k - loc.column - 1] = "\n"
           /\ loc = SourceLocation(0, 0) => fmt(loc) = "line 1 column 1"
           /\ loc = SourceLocation(0, 2) => fmt(loc) = "line 1 column 3"
           /\ loc = SourceLocation(1, 0) => fmt(loc) = "line 2 column 1"
           /\ loc = SourceLocation(1, 1) => fmt(loc) = "line 2 column 2"
           /\ loc = SourceLocation(2, 0) => fmt(loc) = "line 3 column 1"
           /\ loc = SourceLocation(0, 16) => fmt(loc) = "line 1 column 17"

\* C22 witness: the offending bracket is on the second line, after a
\* comment character
C22_Witness ==
    /\ Loaded /\ ~loaded.ok
    /\ src = <<"\n", "x", "]">>
    /\ loaded.err.location = SourceLocation(1, 1)
    /\ fmt(loaded.err.location) = "line 2 column 2"

\* ------------------------------------------ properties of the NewlineWrap
\* the bytes the drop added to the inner sink
Appended == SubSeq(wrapped.inner, Len(last.before.inner) + 1, Len(wrapped.inner))

\* the inner sink accepted the one-byte write of the drop, if there was one
FinalAccepted == last.asked => (last.res.ok /\ last.res.n = 1)

\* C23: after a NewlineWrap is released the bytes received by the wrapped
\* sink end with a line terminator, for every sequence of write calls made
\* through it (writes accepted only in part and no write at all included),
\* as long as the inner sink accepts the final one-byte write.
C23_EndsWithNewline ==
    (pc = "dropped" /\ FinalAccepted) =>
        /\ wrapped.inner # <<>>
        /\ wrapped.inner[Len(wrapped.inner)] = Newline

Failed == driver = "main" /\ pc = "returned" /\ ~ret.ok

\* C24: when run returns TapeRunOffError or IoError (a failed read or a
\* failed write), the machine's ip is still the index of the failing
\* instruction, which is the ip_at_error reported, and dp, the tape length
\* and every cell are as they were just before that instruction was
\* dispatched.
C24_FailedStepLeavesMachine ==
    Failed =>
        /\ ret.kind \in {"TapeRunOffError", "IoError"}
        /\ ret = last.res
        /\ ret.ip_at_error = machine.ip
        /\ machine.ip = last.before.ip
        /\ instructions[machine.ip + 1].op = last.op
        /\ machine.dp = last.before.dp
        /\ Len(machine.tape) = Len(last.before.tape)
        /\ machine.tape = last.before.tape

\* C24 witness: a write failed, after steps that moved the head and set a
\* cell
C24_Witness ==
    /\ Failed
    /\ ret.kind = "IoError"
    /\ last.op = "Out"
    /\ machine.dp > 0
    /\ CellAfter # 0
    /\ machine.ip = 2

\* C25: in a source that has both a close bracket with no pending open and
\* an open bracket that is never closed, try_new reports UnopenedBracket, at
\* that close bracket, and never UnclosedBracket; `][` fails with
\* UnopenedBracket at line 0 column 0.
C25_UnopenedBeforeUnclosed ==
    (Loaded /\ UnopenedCloses(src) # {}
            /\ \E k \in 1..Len(src) : src[k] = "[" /\ ClosesOf(src, k) = {}) =>
        /\ ~loaded.ok
        /\ loaded.err.kind # "UnclosedBracket"
        /\ loaded.err = BfParseError(Filename, LocOf(src, Least(UnopenedCloses(src))),
                                     "UnopenedBracket")
        /\ src = <<"]", "[">> =>
              loaded.err = BfParseError(Filename, SourceLocation(0, 0), "UnopenedBracket")

\* C25 witness: `][` has been rejected
C25_Witness ==
    /\ Loaded
    /\ src = <<"]", "[">>
    /\ ~loaded.ok
    /\ loaded.err.kind = "UnopenedBracket"

\* C26: a loop entered with a nonzero cell whose body brings the cell to
\* zero is left after finitely many iterations: `+[-]` on an 8-bit tape
\* eventually returns Ok with cell 0 equal to 0 and ip past the `]`.
C26_ClearLoopReturns ==
    (/\ driver = "main" /\ src = ClearLoop /\ pc = "run" /\ machine.ip = 0
     /\ machine.cell = "u8")
        ~> (pc = "returned" /\ ret.ok /\ machine.tape[1] = 0 /\ machine.ip = 4)

\* ------------------------------------------------ properties of the frame
\* C27: each instruction changes only what it names: Increment, Decrement
\* and a successful Input change only the cell at dp; MoveLeft and
\* MoveRight change no cell below the old tape length; Output, JumpIfZero
\* and JumpIfNonZero change neither dp nor any cell; no instruction changes
\* the Program's instruction sequence.
C27_Frame ==
    (Built /\ last.op # "none") =>
        /\ machine.program = last.before.program
        /\ machine.program = loaded.program
        /\ (last.op \in {"Succ", "Pred"} \/ (last.op = "In" /\ last.res.ok)) =>
              OnlyCellAtHead
        /\ last.op \in {"Inc", "Dec"} =>
              /\ Len(machine.tape) >= Len(last.before.tape)
              /\ \A k \in 1..Len(last.before.tape) : machine.tape[k] = last.before.tape[k]
        /\ last.op \in {"Out", "Jz", "Jnz"} =>
              /\ machine.dp = last.before.dp
              /\ machine.tape = last.before.tape

\* C27 witness: an Increment at cell 1 has left the nonzero cell 0 as it was
C27_Witness ==
    /\ Built
    /\ last.op = "Succ"
    /\ machine.dp = 1
    /\ machine.tape[1] # 0
    /\ machine.tape[1] = last.before.tape[1]
    /\ machine.tape[2] # last.before.tape[2]

\* ------------------------------------------- properties of the matching
\* the brackets of sh after position a up to position b are balanced
Balanced(sh, a, b) ==
    /\ \A m \in (a + 1)..b : Depth(sh, m) >= Depth(sh, a)
    /\ Depth(sh, b) = Depth(sh, a)

\* C28: the bracket matching computed by try_new is the proper-nesting
\* matching: an involution that pairs each `[` at index i with a `]` at an
\* index j > i such that the instructions strictly between are balanced;
\* the dest of the `[` is one past its own `]`, nested loops included.
C28_ProperNesting ==
    (Loaded /\ loaded.ok) =>
        LET ins == loaded.program.instructions
            sh  == Shape(ins)
        IN /\ \A i \in 0..(Len(ins) - 1) :
                 ins[i + 1].op = "Jz" =>
                    LET j == ins[i + 1].dest - 1
                    IN /\ j > i
                       /\ j < Len(ins)
                       /\ ins[j + 1].op = "Jnz"
                       /\ ins[j + 1].dest - 1 = i
                       /\ Balanced(sh, i + 1, j)
           /\ \A j \in 0..(Len(ins) - 1) :
                 ins[j + 1].op = "Jnz" =>
                    LET i == ins[j + 1].dest - 1
                    IN /\ i >= 0
                       /\ i < j
                       /\ ins[i + 1].op = "Jz"
                       /\ ins[i + 1].dest - 1 = j

\* C28 witness: an accepted program whose outer `[` jumps past a whole
\* inner loop to one past its own `]`
C28_Witness ==
    /\ Loaded /\ loaded.ok
    /\ LET ins == loaded.program.instructions
       IN \E i, n \in 1..Len(ins) :
             /\ ins[i].op = "Jz"
             /\ ins[n].op = "Jz"
             /\ i < n
             /\ ins[n].dest < ins[i].dest
             /\ ins[ins[i].dest].op = "Jnz"

\* ------------------------------------------ properties of the front end
\* the value given to --cells is a number of at least one: after an
\* optional `+`, decimal digits, one of them not `0`
AtLeastOne(s) ==
    LET ds == IF s # <<>> /\ s[1] = "+" THEN Tail(s) ELSE s
    IN /\ ds # <<>>
       /\ \A k \in 1..Len(ds) :
             ds[k] \in {"0", "1", "2", "3", "4", "5", "6", "7", "8", "9"}
       /\ \E k \in 1..Len(ds) : ds[k] # "0"

\* C30: the front end rejects a cell count of 0 before any Machine is
\* built (values from 1 up are accepted, the default is 30000), so
\* Machine::new is never called with an empty tape through the CLI;
\* the `extensible` flag selects Growable, its absence FixedSize.
C30_CliForbidsZero ==
    args.parsed =>
        /\ args.ok <=> (args.argv.cells = <<>> \/ AtLeastOne(args.argv.cells[1]))
        /\ pc = "exit" <=> ~args.ok
        /\ ~args.ok => machine = NoMachine
        /\ args.ok =>
              /\ args.cells >= 1
              /\ args.argv.cells = <<>> => args.cells = 30000
              /\ args.argv.cells = <<<<"1">>>> => args.cells = 1
              /\ args.argv.cells = <<<<"1", "0">>>> => args.cells = 10
              /\ args.argv.cells = <<<<"+", "0", "2">>>> => args.cells = 2
        /\ pc = "built" =>
              /\ Len(machine.tape) = args.cells
              /\ Len(machine.tape) >= 1
              /\ machine.tape_can_grow = args.argv.extensible

\* C30 witness: `--cells 0` has ended the process and no Machine was built
C30_Witness ==
    /\ pc = "exit"
    /\ args.parsed
    /\ args.argv.cells = <<<<"0">>>>
    /\ machine = NoMachine

====
